---- MODULE Spec2Model ----
(***************************************************************************)
(* A model of teacup.js: the Teacup pipeline                               *)
(*     Lexer -> tagPrefixOperators -> Parser -> Interpreter.               *)
(* Every stage is modelled from its code.  JavaScript values are records   *)
(* so that any two of them can be compared: null is NULL, undefined is     *)
(* UNDEF, a token is [type, text, start, end] and a finalized node is      *)
(* [type, args, ops, start, end] whose type is the signature, kept as the  *)
(* sequence of the words that finalize joins with single spaces.           *)
(***************************************************************************)
EXTENDS Integers, Sequences, FiniteSets, TLC

VARIABLES
    input,      \* the argument handed to the stage under study
    lexer,      \* Lexer.prototype.process: the split in progress
    tagger,     \* tagPrefixOperators: its token array and loop variables
    parser,     \* Parser.prototype.process: its local variables
    interp,     \* Interpreter.prototype.eval: the call in progress and the
                \* calls waiting for it
    envs,       \* the environment objects, each with its prototype
    evalLog,    \* the span of the node of every call of eval, in order
    captured    \* the environments that lambdas have closed over

evalVars == <<interp, envs, evalLog, captured>>
vars == <<input, lexer, tagger, parser, interp, envs, evalLog, captured>>

NULL == [type |-> "null"]
UNDEF == [type |-> "undefined"]

IsToken(x) == "text" \in DOMAIN x
IsNode(x) == "args" \in DOMAIN x

Token(type, text, start, end) ==
    [type |-> type, text |-> text, start |-> start, end |-> end]

\* A token sequence built from <<type, text>> pairs, token i spanning [i-1, i).
Place(pairs) ==
    [i \in 1..Len(pairs) |-> Token(pairs[i][1], pairs[i][2], i - 1, i)]

RECURSIVE SeqsUpTo(_, _)
SeqsUpTo(S, n) ==
    IF n = 0 THEN {<<>>}
    ELSE LET shorter == SeqsUpTo(S, n - 1)
         IN  shorter \cup {Append(s, x) : s \in shorter, x \in S}

(***************************************************************************)
(* LEXER                                                                   *)
(* A text is a sequence of one-character strings, and so is a lexeme.      *)
(***************************************************************************)

\* The longest text handed to the lexer.
MaxTextLen == 3

\* The characters texts are drawn from: some of every class the token
\* definitions tell apart, and two (space, quote mark ') of no class.
LexAlphabet ==
    {"1", ".", "e", "i", "n", "+", "(", " ", "'", "#", "\"", "\n"}

Digits == {"0", "1", "2", "3", "4", "5", "6", "7", "8", "9"}
Letters ==
    {"a", "b", "c", "d", "e", "f", "g", "h", "i", "j", "k", "l", "m", "n",
     "o", "p", "q", "r", "s", "t", "u", "v", "w", "x", "y", "z",
     "A", "B", "C", "D", "E", "F", "G", "H", "I", "J", "K", "L", "M", "N",
     "O", "P", "Q", "R", "S", "T", "U", "V", "W", "X", "Y", "Z"}
\* \w
WordChars == Letters \cup Digits \cup {"_"}
\* [!@$%^&*|/?.:~+=<>-]
OperatorChars ==
    {"!", "@", "$", "%", "^", "&", "*", "|", "/", "?", ".", ":", "~", "+",
     "=", "<", ">", "-"}

\* Object.keys(Teacup.tokenDefinitions), in order.
tokenTypes ==
    <<"number", "open", "middle", "close", "infix", "word", "string",
      "comment">>

OpenKeywords ==
    << <<"l", "e", "t">>, <<"f", "o", "r">>, <<"i", "f">>,
       <<"b", "e", "g", "i", "n">> >>
MiddleKeywords ==
    << <<"t", "h", "e", "n">>, <<"e", "l", "i", "f">>, <<"e", "l", "s", "e">>,
       <<"i", "n">>, <<"d", "o">>, <<"w", "h", "e", "n">> >>
CloseKeywords == << <<"e", "n", "d">> >>
InfixKeywords == << <<"a", "n", "d">>, <<"o", "r">>, <<"n", "o", "t">> >>

CharAt(text, p) == IF p \in 1..Len(text) THEN text[p] ELSE ""

\* \b just before index p.
Boundary(text, p) ==
    (CharAt(text, p - 1) \in WordChars) # (CharAt(text, p) \in WordChars)

StartsWith(text, p, w) ==
    /\ p + Len(w) - 1 <= Len(text)
    /\ SubSeq(text, p, p + Len(w) - 1) = w

\* \b(?:k1|k2|...)\b at p: the length matched, 0 for no match.
RECURSIVE KeywordLen(_, _, _)
KeywordLen(text, p, kws) ==
    IF kws = <<>> THEN 0
    ELSE IF /\ Boundary(text, p)
            /\ StartsWith(text, p, Head(kws))
            /\ Boundary(text, p + Len(Head(kws)))
        THEN Len(Head(kws))
    ELSE KeywordLen(text, p, Tail(kws))

\* [S]* at p: the length of the longest run.
RECURSIVE RunLen(_, _, _)
RunLen(text, p, S) ==
    IF CharAt(text, p) \in S THEN 1 + RunLen(text, p + 1, S) ELSE 0

\* [^c]* at p: the length of the longest run.
RECURSIVE RunExcept(_, _, _)
RunExcept(text, p, c) ==
    IF p \in 1..Len(text) /\ text[p] # c
    THEN 1 + RunExcept(text, p + 1, c) ELSE 0

\* \d+(?:\.\d+)?(?:[eE][+-]?\d+)?
NumberLen(text, p) ==
    LET int == RunLen(text, p, Digits)
        frac == IF CharAt(text, p + int) = "."
                   /\ RunLen(text, p + int + 1, Digits) > 0
                THEN 1 + RunLen(text, p + int + 1, Digits) ELSE 0
        q == p + int + frac
        sgn == IF CharAt(text, q + 1) \in {"+", "-"} THEN 1 ELSE 0
        exp == IF CharAt(text, q) \in {"e", "E"}
                  /\ RunLen(text, q + 1 + sgn, Digits) > 0
               THEN 1 + sgn + RunLen(text, q + 1 + sgn, Digits) ELSE 0
    IN  IF int = 0 THEN 0 ELSE int + frac + exp

\* "(?:[^"]|\\.)*" : [^"] is tried first and takes a backslash too, so the
\* match ends at the next quote; without one there is no match.
StringLen(text, p) ==
    LET body == RunExcept(text, p + 1, "\"")
    IN  IF CharAt(text, p) = "\"" /\ CharAt(text, p + 1 + body) = "\""
        THEN body + 2 ELSE 0

\* #[^\n]*(?=\n|$)
CommentLen(text, p) ==
    IF CharAt(text, p) = "#"
    THEN 1 + RunExcept(text, p + 1, "\n")
    ELSE 0

\* The length the definition of a token type matches at p, 0 for no match.
RuleLen(type, text, p) ==
    CASE type = "number" -> NumberLen(text, p)
      [] type = "open" ->
            IF CharAt(text, p) \in {"(", "[", "{"} THEN 1
            ELSE KeywordLen(text, p, OpenKeywords)
      [] type = "middle" -> KeywordLen(text, p, MiddleKeywords)
      [] type = "close" ->
            IF CharAt(text, p) \in {")", "]", "}"} THEN 1
            ELSE KeywordLen(text, p, CloseKeywords)
      [] type = "infix" ->
            IF CharAt(text, p) \in {",", ";", "\n"} THEN 1
            ELSE IF RunLen(text, p, OperatorChars) > 0
                THEN RunLen(text, p, OperatorChars)
            ELSE KeywordLen(text, p, InfixKeywords)
      [] type = "word" -> RunLen(text, p, WordChars)
      [] type = "string" -> StringLen(text, p)
      [] type = "comment" -> CommentLen(text, p)

\* this.re at p: the alternatives are tried in the order of the keys.
RECURSIVE FirstRule(_, _, _)
FirstRule(text, p, k) ==
    IF k > Len(tokenTypes) THEN [type |-> "null", len |-> 0]
    ELSE IF RuleLen(tokenTypes[k], text, p) > 0
        THEN [type |-> tokenTypes[k], len |-> RuleLen(tokenTypes[k], text, p)]
    ELSE FirstRule(text, p, k + 1)

MatchAt(text, p) == FirstRule(text, p, 1)

\* The leftmost index from p on at which this.re matches, 0 for none.
RECURSIVE NextMatch(_, _)
NextMatch(text, p) ==
    IF p > Len(text) THEN 0
    ELSE IF MatchAt(text, p).len > 0 THEN p
    ELSE NextMatch(text, p + 1)

\* The object map builds for a piece of the split; the groups that took no
\* part in a match are undefined, of length 0, and are left out.
Piece(type, text, from, to) ==
    [type |-> type, text |-> SubSeq(text, from, to - 1),
     start |-> from - 1, end |-> to - 1]

\* A plausible slip: the filter does not test the type.
KeptAnyType(t) == t.type # "comment" /\ t.text # <<>>

\* filter(t => t.type && t.type !== "comment" && t.text)
Kept(t) == t.type # "null" /\ t.type # "comment" /\ t.text # <<>>

IdleLexer == [text |-> <<>>, at |-> 1, pieces |-> <<>>, pc |-> "idle",
              ret |-> <<>>]

LexerCalled(text) ==
    [text |-> text, at |-> 1, pieces |-> <<>>, pc |-> "split", ret |-> <<>>]

\* The piece before a match (type null: index 0 modulo the number of types)
\* and the matched piece.
SplitPieces(text, at, m) ==
    << Piece("null", text, at, m),
       Piece(MatchAt(text, m).type, text, m, m + MatchAt(text, m).len) >>

\* split finds the next match of this.re.
LexMatch ==
    /\ lexer.pc = "split" /\ NextMatch(lexer.text, lexer.at) > 0
    /\ LET m == NextMatch(lexer.text, lexer.at)
       IN  lexer' = [lexer EXCEPT
                !.pieces = @ \o SplitPieces(lexer.text, lexer.at, m),
                !.at = m + MatchAt(lexer.text, m).len]
    /\ UNCHANGED <<input, tagger, parser, evalVars>>

\* No match is left: the rest is the last piece, and the pieces are filtered.
LexReturn ==
    /\ lexer.pc = "split" /\ NextMatch(lexer.text, lexer.at) = 0
    /\ LET all == Append(lexer.pieces,
                    Piece("null", lexer.text, lexer.at, Len(lexer.text) + 1))
       IN  lexer' = [lexer EXCEPT !.pieces = all,
                                  !.at = Len(lexer.text) + 1,
                                  !.pc = "returned",
                                  !.ret = SelectSeq(all, Kept)]
    /\ UNCHANGED <<input, tagger, parser, evalVars>>

(***************************************************************************)
(* PREFIX OPERATORS: tagPrefixOperators                                    *)
(***************************************************************************)

\* The longest token sequence handed to the tagger.
MaxTagLen == 3

\* One token of each kind the lexer produces.
LexedKinds ==
    { <<"number", "1">>, <<"open", "(">>, <<"middle", "in">>,
      <<"close", ")">>, <<"infix", "-">>, <<"word", "a">>,
      <<"string", "s">> }

\* The first branch of the loop body: a leading open token.
LeadingOpen(prevType, type) == prevType = "start" /\ type = "open"

\* A plausible slip: the re-tagged kind is tested instead of the lexed one.
RetagsAfterPrefix(prevType, type) ==
    type = "infix" /\ (prevType = "prefix" \/ prevType = "open")

\* The second branch: an infix token after an infix or an open token.
Retags(prevType, type) ==
    type = "infix" /\ (prevType = "infix" \/ prevType = "open")

\* The kind the loop body leaves on a token of kind type.
TaggedType(prevType, type) ==
    IF LeadingOpen(prevType, type) THEN type
    ELSE IF Retags(prevType, type) THEN "prefix"
    ELSE type

\* tagPrefixOperators as a function: prevType is always the kind the token
\* had before the body ran.
RECURSIVE TagFrom(_, _, _)
TagFrom(toks, i, prevType) ==
    IF i > Len(toks) THEN toks
    ELSE TagFrom([toks EXCEPT ![i].type = TaggedType(prevType, toks[i].type)],
                 i + 1, toks[i].type)

tagPrefixOperators(toks) == TagFrom(toks, 1, "start")

IdleTagger ==
    [tokens |-> <<>>, i |-> 1, prevType |-> "start", pc |-> "idle",
     pass |-> 0, first |-> <<>>]

\* The call tagPrefixOperators(toks), about to run its loop.
TaggerCalled(toks, pass, first) ==
    [tokens |-> toks, i |-> 1, prevType |-> "start", pc |-> "loop",
     pass |-> pass, first |-> first]

TagLeadingOpen ==
    /\ tagger.pc = "loop" /\ tagger.i <= Len(tagger.tokens)
    /\ LeadingOpen(tagger.prevType, tagger.tokens[tagger.i].type)
    /\ tagger' = [tagger EXCEPT !.prevType = tagger.tokens[tagger.i].type,
                                !.i = @ + 1]
    /\ UNCHANGED <<input, lexer, parser, evalVars>>

TagRetag ==
    /\ tagger.pc = "loop" /\ tagger.i <= Len(tagger.tokens)
    /\ ~LeadingOpen(tagger.prevType, tagger.tokens[tagger.i].type)
    /\ Retags(tagger.prevType, tagger.tokens[tagger.i].type)
    /\ tagger' = [tagger EXCEPT !.prevType = tagger.tokens[tagger.i].type,
                                !.tokens[tagger.i].type = "prefix",
                                !.i = @ + 1]
    /\ UNCHANGED <<input, lexer, parser, evalVars>>

TagKeep ==
    /\ tagger.pc = "loop" /\ tagger.i <= Len(tagger.tokens)
    /\ ~LeadingOpen(tagger.prevType, tagger.tokens[tagger.i].type)
    /\ ~Retags(tagger.prevType, tagger.tokens[tagger.i].type)
    /\ tagger' = [tagger EXCEPT !.prevType = tagger.tokens[tagger.i].type,
                                !.i = @ + 1]
    /\ UNCHANGED <<input, lexer, parser, evalVars>>

TagReturn ==
    /\ tagger.pc = "loop" /\ tagger.i > Len(tagger.tokens)
    /\ tagger' = [tagger EXCEPT !.pc = "done"]
    /\ UNCHANGED <<input, lexer, parser, evalVars>>

\* The tagger is applied once more, to the stream it has just returned.
TagAgain ==
    /\ tagger.pc = "done" /\ tagger.pass = 1
    /\ tagger' = TaggerCalled(tagger.tokens, 2, tagger.tokens)
    /\ UNCHANGED <<input, lexer, parser, evalVars>>

(***************************************************************************)
(* PARSER                                                                  *)
(***************************************************************************)

\* A plausible slip: lassoc built like rassoc.
lassocRaised(n) == [left |-> n, right |-> n + 1]

lassoc(n) == [left |-> n, right |-> n - 1]
rassoc(n) == [left |-> n, right |-> n + 1]
xassoc(n) == [left |-> n, right |-> n]
prefix(n) == [left |-> n, right |-> 10004]
suffix(n) == [left |-> 10005, right |-> n]

\* Teacup.priorities.  The key "a:b" is <<"a", "b">> and the key "t" is <<"t">>.
priorities ==
    (<<"type", "open">> :> prefix(5)) @@
    (<<"type", "middle">> :> xassoc(5)) @@
    (<<"type", "close">> :> suffix(5)) @@
    (<<"\n">> :> xassoc(15)) @@
    (<<";">> :> xassoc(15)) @@
    (<<",">> :> xassoc(25)) @@
    (<<"=">> :> rassoc(35)) @@
    (<<"->">> :> rassoc(35)) @@
    (<<"not">> :> prefix(105)) @@
    (<<"or">> :> lassoc(115)) @@
    (<<"and">> :> lassoc(125)) @@
    (<<">">> :> xassoc(205)) @@
    (<<"<">> :> xassoc(205)) @@
    (<<">=">> :> xassoc(205)) @@
    (<<"<=">> :> xassoc(205)) @@
    (<<"==">> :> xassoc(205)) @@
    (<<"..">> :> xassoc(305)) @@
    (<<"+">> :> lassoc(505)) @@
    (<<"-">> :> lassoc(505)) @@
    (<<"prefix", "-">> :> prefix(605)) @@
    (<<"*">> :> lassoc(605)) @@
    (<<"/">> :> lassoc(605)) @@
    (<<"%">> :> lassoc(605)) @@
    (<<"^">> :> rassoc(705)) @@
    (<<"type", "infix">> :> xassoc(905)) @@
    (<<"type", "prefix">> :> prefix(905)) @@
    (<<".">> :> [left |-> 15005, right |-> 1004]) @@
    (<<"type", "word">> :> xassoc(20005)) @@
    (<<"type", "number">> :> xassoc(20005)) @@
    (<<"type", "string">> :> xassoc(20005))

HasPrio(t) ==
    \/ <<t.type, t.text>> \in DOMAIN priorities
    \/ <<t.text>> \in DOMAIN priorities
    \/ <<"type", t.type>> \in DOMAIN priorities

\* Parser.prototype.getPrio, where it does not throw.
getPrio(t) ==
    IF <<t.type, t.text>> \in DOMAIN priorities
        THEN priorities[<<t.type, t.text>>]
    ELSE IF <<t.text>> \in DOMAIN priorities THEN priorities[<<t.text>>]
    ELSE priorities[<<"type", t.type>>]

sign(n) == IF n > 0 THEN 1 ELSE IF n < 0 THEN -1 ELSE 0

\* A plausible slip: the two sides of the priority pairs are exchanged.
orderSwapped(a, b) ==
    IF a = UNDEF /\ b = UNDEF THEN "done"
    ELSE IF a = UNDEF THEN "1"
    ELSE IF b = UNDEF THEN "-1"
    ELSE IF ~HasPrio(a) \/ ~HasPrio(b) THEN "throw"
    ELSE LET pa == getPrio(a).right
             pb == getPrio(b).left
         IN  CASE sign(pb - pa) = 1 -> "1"
               [] sign(pb - pa) = -1 -> "-1"
               [] OTHER -> "0"

\* Parser.prototype.order; "throw" is getPrio's SyntaxError.
order(a, b) ==
    IF a = UNDEF /\ b = UNDEF THEN "done"
    ELSE IF a = UNDEF THEN "1"
    ELSE IF b = UNDEF THEN "-1"
    ELSE IF ~HasPrio(a) \/ ~HasPrio(b) THEN "throw"
    ELSE LET pa == getPrio(a).left
             pb == getPrio(b).right
         IN  CASE sign(pb - pa) = 1 -> "1"
               [] sign(pb - pa) = -1 -> "-1"
               [] OTHER -> "0"

\* The operand slots (JavaScript's even indexes) and the operators of a handle.
Operands(node) == [k \in 1..((Len(node) + 1) \div 2) |-> node[2 * k - 1]]
Operators(node) == [k \in 1..(Len(node) \div 2) |-> node[2 * k]]

Signature(node) ==
    [i \in 1..Len(node) |->
        IF i % 2 = 1 THEN (IF node[i] = NULL THEN "_" ELSE "E")
        ELSE node[i].text]

\* The standard finalizer.
finalize(node) ==
    LET l == Len(node)
    IN  IF l = 3 /\ node[1] = NULL /\ node[3] = NULL THEN node[2]
        ELSE [type |-> Signature(node),
              args |-> SelectSeq(Operands(node), LAMBDA x : x # NULL),
              ops |-> Operators(node),
              start |-> IF node[1] # NULL THEN node[1].start ELSE node[2].start,
              end |-> IF node[l] # NULL THEN node[l].end ELSE node[l - 1].end]

\* tokens.shift(): the first token, or undefined when none is left.
Shift(toks) == IF toks = <<>> THEN UNDEF ELSE Head(toks)
Shifted(toks) == IF toks = <<>> THEN <<>> ELSE Tail(toks)

IdleParser ==
    [tokens |-> <<>>, stack |-> <<>>, middle |-> NULL, left |-> UNDEF,
     right |-> UNDEF, current |-> <<>>, pc |-> "idle", ret |-> NULL,
     closed |-> <<>>]

\* Parser.process up to its loop.
ParserCalled(toks) ==
    [tokens |-> Shifted(toks), stack |-> <<>>, middle |-> NULL,
     left |-> UNDEF, right |-> Shift(toks), current |-> <<NULL, UNDEF>>,
     pc |-> "loop", ret |-> NULL, closed |-> <<>>]

\* case "done"
DoneStep(p) == [p EXCEPT !.pc = "done", !.ret = p.middle]

\* case 1
OpenStep(p) ==
    [p EXCEPT !.stack = Append(p.stack, p.current),
              !.current = <<p.middle, p.right>>,
              !.middle = NULL,
              !.left = p.right,
              !.right = Shift(p.tokens),
              !.tokens = Shifted(p.tokens)]

\* A plausible slip: the closed handle's outer handle stays on the stack.
CloseStepNoPop(p) ==
    IF p.stack = <<>> THEN [p EXCEPT !.pc = "throw"]
    ELSE LET handle == Append(p.current, p.middle)
             outer == p.stack[Len(p.stack)]
         IN  [p EXCEPT !.closed = handle,
                       !.middle = finalize(handle),
                       !.current = outer,
                       !.left = outer[Len(outer)]]

\* case -1; closed records the handle passed to the finalizer.  stack.pop()
\* of an empty stack yields undefined, and reading its length is a TypeError.
CloseStep(p) ==
    IF p.stack = <<>> THEN [p EXCEPT !.pc = "throw"]
    ELSE LET handle == Append(p.current, p.middle)
             outer == p.stack[Len(p.stack)]
         IN  [p EXCEPT !.closed = handle,
                       !.middle = finalize(handle),
                       !.stack = SubSeq(p.stack, 1, Len(p.stack) - 1),
                       !.current = outer,
                       !.left = outer[Len(outer)]]

\* A plausible slip: the operand between the two operators is not kept.
ExtendStepDropsMiddle(p) ==
    [p EXCEPT !.current = p.current \o <<NULL, p.right>>,
              !.middle = NULL,
              !.left = p.right,
              !.right = Shift(p.tokens),
              !.tokens = Shifted(p.tokens)]

\* case 0
ExtendStep(p) ==
    [p EXCEPT !.current = p.current \o <<p.middle, p.right>>,
              !.middle = NULL,
              !.left = p.right,
              !.right = Shift(p.tokens),
              !.tokens = Shifted(p.tokens)]

\* One iteration of the loop of Parser.process.
ParseStep(p) ==
    CASE order(p.left, p.right) = "done" -> DoneStep(p)
      [] order(p.left, p.right) = "1" -> OpenStep(p)
      [] order(p.left, p.right) = "-1" -> CloseStep(p)
      [] order(p.left, p.right) = "0" -> ExtendStep(p)
      [] OTHER -> [p EXCEPT !.pc = "throw"]

ParseDone ==
    /\ parser.pc = "loop" /\ order(parser.left, parser.right) = "done"
    /\ parser' = DoneStep(parser)
    /\ UNCHANGED <<input, lexer, tagger, evalVars>>

ParseOpen ==
    /\ parser.pc = "loop" /\ order(parser.left, parser.right) = "1"
    /\ parser' = OpenStep(parser)
    /\ UNCHANGED <<input, lexer, tagger, evalVars>>

ParseClose ==
    /\ parser.pc = "loop" /\ order(parser.left, parser.right) = "-1"
    /\ parser' = CloseStep(parser)
    /\ UNCHANGED <<input, lexer, tagger, evalVars>>

ParseExtend ==
    /\ parser.pc = "loop" /\ order(parser.left, parser.right) = "0"
    /\ parser' = ExtendStep(parser)
    /\ UNCHANGED <<input, lexer, tagger, evalVars>>

ParseThrow ==
    /\ parser.pc = "loop" /\ order(parser.left, parser.right) = "throw"
    /\ parser' = [parser EXCEPT !.pc = "throw"]
    /\ UNCHANGED <<input, lexer, tagger, evalVars>>

\* Parser.process as a function: the loop run to its end.
RECURSIVE ParseLoop(_)
ParseLoop(p) == IF p.pc = "loop" THEN ParseLoop(ParseStep(p)) ELSE p

Parse(toks) == ParseLoop(ParserCalled(toks))

(***************************************************************************)
(* VALUES, ENVIRONMENT, ROOT ENVIRONMENT                                   *)
(***************************************************************************)

Num(n) == [t |-> "num", n |-> n]
Bool(b) == [t |-> "bool", b |-> b]
Str(s) == [t |-> "str", s |-> s]
List(items) == [t |-> "list", items |-> items]
Null == [t |-> "null"]
Undef == [t |-> "undef"]
NaN == [t |-> "nan"]
\* Infinity (sgn 1) and -Infinity (sgn -1)
Inf(sgn) == [t |-> "inf", sgn |-> sgn]
\* A function made by buildFunction; by names the handler that built it.
Closure(decls, body, env, by) ==
    [t |-> "fn", decls |-> decls, body |-> body, env |-> env, by |-> by]
\* A function of Teacup.rootEnv.
Builtin(name) == [t |-> "builtin", name |-> name]
\* The host object Math.
Host(name) == [t |-> "host", name |-> name]

\* lazy(fn): the functions of the root environment that carry the flag.
LazyBuiltins == {"and", "or"}

\* makeEnvironment(Teacup.rootEnv).  The key "prefix:x" is <<"prefix", "x">>
\* and the key "x" is <<"x">>.
rootEnv ==
    (<<"true">> :> Bool(TRUE)) @@
    (<<"false">> :> Bool(FALSE)) @@
    (<<"null">> :> Null) @@
    (<<"+">> :> Builtin("+")) @@
    (<<"-">> :> Builtin("-")) @@
    (<<"prefix", "-">> :> Builtin("prefix:-")) @@
    (<<"*">> :> Builtin("*")) @@
    (<<"/">> :> Builtin("/")) @@
    (<<"%">> :> Builtin("%")) @@
    (<<"^">> :> Builtin("^")) @@
    (<<"<">> :> Builtin("<")) @@
    (<<">">> :> Builtin(">")) @@
    (<<"<=">> :> Builtin("<=")) @@
    (<<">=">> :> Builtin(">=")) @@
    (<<"==">> :> Builtin("==")) @@
    (<<"..">> :> Builtin("..")) @@
    (<<"prefix", "not">> :> Builtin("prefix:not")) @@
    (<<"and">> :> Builtin("and")) @@
    (<<"or">> :> Builtin("or")) @@
    (<<"Math">> :> Host("Math")) @@
    (<<"log">> :> Builtin("log"))

\* An environment object: its prototype (0 for null) and its own properties.
Env(parent, props) == [parent |-> parent, props |-> props]

\* The environment reference 0 is undefined: an argument that was not passed.
NoEnv == 0

\* text in env, for an environment object: the prototype chain is searched.
RECURSIVE HasName(_, _, _)
HasName(es, e, key) ==
    IF e = 0 THEN FALSE
    ELSE IF key \in DOMAIN es[e].props THEN TRUE
    ELSE HasName(es, es[e].parent, key)

\* env[text]
RECURSIVE GetName(_, _, _)
GetName(es, e, key) ==
    IF e = 0 THEN Undef
    ELSE IF key \in DOMAIN es[e].props THEN es[e].props[key]
    ELSE GetName(es, es[e].parent, key)

\* The environment e and the prototypes behind it.
RECURSIVE Chain(_, _)
Chain(es, e) == IF e = 0 THEN {} ELSE {e} \cup Chain(es, es[e].parent)

\* The outcome of a computation that may throw.
Ok(v) == [ok |-> TRUE, val |-> v, err |-> ""]
Fail(err) == [ok |-> FALSE, val |-> Undef, err |-> err]

\* resolve(env, text); `in` applied to undefined is a TypeError.
resolve(es, e, key) ==
    IF e = NoEnv THEN Fail("TypeError")
    ELSE IF HasName(es, e, key) THEN Ok(GetName(es, e, key))
    ELSE Fail("ReferenceError")

\* JavaScript's ToBoolean
Truthy(v) ==
    CASE v.t = "num" -> v.n # 0
      [] v.t = "bool" -> v.b
      [] v.t = "str" -> v.s # ""
      [] v.t \in {"null", "undef", "nan"} -> FALSE
      [] OTHER -> TRUE

\* JavaScript's ToNumber, on the values that are not strings or objects.
ToNum(v) ==
    CASE v.t = "num" -> v
      [] v.t = "bool" -> Num(IF v.b THEN 1 ELSE 0)
      [] v.t = "null" -> Num(0)
      [] v.t = "undef" -> NaN
      [] v.t = "nan" -> NaN
      [] v.t = "inf" -> v

Abs(n) == IF n < 0 THEN -n ELSE n

RECURSIVE Power(_, _)
Power(a, b) == IF b = 0 THEN 1 ELSE a * Power(a, b - 1)

\* The arithmetic of the root environment on numbers; a quotient is taken
\* only where it is a whole number, a power only for a whole exponent >= 0.
Arith(op, a, b) ==
    LET x == ToNum(a)
        y == ToNum(b)
    IN  IF x.t = "nan" \/ y.t = "nan" THEN NaN
        ELSE CASE op = "+" /\ x.t = "num" /\ y.t = "num" -> Num(x.n + y.n)
               [] op = "-" /\ x.t = "num" /\ y.t = "num" -> Num(x.n - y.n)
               [] op = "*" /\ x.t = "num" /\ y.t = "num" -> Num(x.n * y.n)
               [] op = "/" /\ x.t = "num" /\ y.t = "num" /\ y.n = 0 ->
                    IF x.n = 0 THEN NaN ELSE Inf(sign(x.n))
               [] op = "/" /\ x.t = "num" /\ y.t = "num" /\ y.n # 0
                           /\ Abs(x.n) % Abs(y.n) = 0 ->
                    Num(sign(x.n) * sign(y.n) * (Abs(x.n) \div Abs(y.n)))
               [] op = "%" /\ x.t = "num" /\ y.t = "num" ->
                    IF y.n = 0 THEN NaN
                    ELSE Num(sign(x.n) * (Abs(x.n) % Abs(y.n)))
               [] op = "^" /\ x.t = "num" /\ y.t = "num" /\ y.n >= 0 ->
                    Num(Power(x.n, y.n))
               [] op = "+" /\ x.t = "inf" /\ y.t = "num" -> x
               [] op = "+" /\ x.t = "num" /\ y.t = "inf" -> y

Less(a, b) ==
    LET x == ToNum(a)
        y == ToNum(b)
    IN  IF x.t = "nan" \/ y.t = "nan" THEN FALSE
        ELSE CASE x.t = "num" /\ y.t = "num" -> x.n < y.n
               [] x.t = "inf" /\ y.t = "num" -> x.sgn < 0
               [] x.t = "num" /\ y.t = "inf" -> y.sgn > 0
               [] x.t = "inf" /\ y.t = "inf" -> x.sgn < y.sgn

\* a == b, on the values that are not strings or objects.
LooseEq(a, b) ==
    IF a.t \in {"null", "undef"} \/ b.t \in {"null", "undef"}
    THEN a.t \in {"null", "undef"} /\ b.t \in {"null", "undef"}
    ELSE ToNum(a).t # "nan" /\ ToNum(a) = ToNum(b)

\* An argument of a call: undefined when the call passed fewer.
Arg(vals, i) == IF i <= Len(vals) THEN vals[i] ELSE Undef

\* The functions of Teacup.rootEnv that are not lazy, applied to values.
ApplyBuiltin(name, vals) ==
    LET a == Arg(vals, 1)
        b == Arg(vals, 2)
    IN  CASE name \in {"+", "-", "*", "/", "%", "^"} -> Ok(Arith(name, a, b))
          [] name = "prefix:-" -> Ok(Arith("-", Num(0), a))
          [] name = "<" -> Ok(Bool(Less(a, b)))
          [] name = ">" -> Ok(Bool(Less(b, a)))
          [] name = "<=" -> Ok(Bool(Less(a, b) \/ LooseEq(ToNum(a), ToNum(b))))
          [] name = ">=" -> Ok(Bool(Less(b, a) \/ LooseEq(ToNum(a), ToNum(b))))
          [] name = "==" -> Ok(Bool(LooseEq(a, b)))
          [] name = ".." ->
                IF ToNum(a).t = "num" /\ ToNum(b).t = "num"
                   /\ ToNum(b).n >= ToNum(a).n
                THEN Ok(List([i \in 1..(ToNum(b).n - ToNum(a).n) |->
                                Num(i - 1 + ToNum(a).n)]))
                ELSE Fail("RangeError")
          [] name = "prefix:not" -> Ok(Bool(~Truthy(a)))
          [] name = "log" ->
                Ok(IF vals = <<>> THEN Undef ELSE vals[Len(vals)])

(***************************************************************************)
(* UTILITIES and the helper functions of the handlers                      *)
(***************************************************************************)

\* Lexemes matched by [!@#$%^&*+\/?<>=.-]+|and|or|not : the operators of
\* Teacup.priorities and Teacup.rootEnv written with these characters.
SimpleOperatorLexemes ==
    {"+", "-", "*", "/", "%", "^", "<", ">", "<=", ">=", "==", "..", "=",
     "->", ".", "!", "and", "or", "not"}

\* The operand slots and the operators of a signature.
SigSlots(sig) == [k \in 1..((Len(sig) + 1) \div 2) |-> sig[2 * k - 1]]
SigOps(sig) == [k \in 1..(Len(sig) \div 2) |-> sig[2 * k]]

\* /^[E_]( [;,\n] [E_])+$/
ListSig(sig) ==
    /\ Len(sig) >= 3
    /\ \A k \in 1..Len(SigOps(sig)) : SigOps(sig)[k] \in {";", ",", "\n"}

\* ( elif then)*( else)? end, on the operators of a signature
RECURSIVE IfTail(_)
IfTail(ops) ==
    \/ ops = <<"end">>
    \/ ops = <<"else", "end">>
    \/ /\ Len(ops) >= 3 /\ ops[1] = "elif" /\ ops[2] = "then"
       /\ IfTail(SubSeq(ops, 3, Len(ops)))

\* /^_ if E then E( elif E then E)*( else E)? end _$/
IfSig(sig) ==
    LET slots == SigSlots(sig)
        ops == SigOps(sig)
    IN  /\ Len(ops) >= 3 /\ ops[1] = "if" /\ ops[2] = "then"
        /\ IfTail(SubSeq(ops, 3, Len(ops)))
        /\ slots[1] = "_" /\ slots[Len(slots)] = "_"
        /\ \A k \in 2..(Len(slots) - 1) : slots[k] = "E"

\* Teacup.handlers, in the order of the push calls.
handlers ==
    <<"variable", "prefixOperator", "number", "string", "operator", "paren",
      "begin", "call", "call0", "list", "emptyList", "index", "dot", "if",
      "sequence", "lambda", "let", "for", "forWhen">>

\* extractArgs(h.key, node, false) is not null, for the key of handler h.
Matches(h, node) ==
    IF IsToken(node) THEN
        CASE h = "variable" -> node.type \in {"word", "infix"}
          [] h = "prefixOperator" -> node.type = "prefix"
          [] h = "number" -> node.type = "number"
          [] h = "string" -> node.type = "string"
          [] OTHER -> FALSE
    ELSE
        CASE h = "operator" ->
                /\ Len(node.type) = 3 /\ node.type[3] = "E"
                /\ node.type[2] \in SimpleOperatorLexemes
          [] h = "paren" -> node.type = <<"_", "(", "E", ")", "_">>
          [] h = "begin" -> node.type = <<"_", "begin", "E", "end", "_">>
          [] h = "call" -> node.type = <<"E", "(", "E", ")", "_">>
          [] h = "call0" -> node.type = <<"E", "(", "_", ")", "_">>
          [] h = "list" -> node.type = <<"_", "[", "E", "]", "_">>
          [] h = "emptyList" -> node.type = <<"_", "[", "_", "]", "_">>
          [] h = "index" -> node.type = <<"E", "[", "E", "]", "_">>
          [] h = "dot" -> node.type = <<"E", ".", "E">>
          [] h = "if" -> IfSig(node.type)
          [] h = "sequence" ->
                \E k \in 1..Len(node.type) : node.type[k] \in {",", ";", "\n"}
          [] h = "lambda" -> node.type = <<"E", "->", "E">>
          [] h = "let" ->
                node.type = <<"_", "let", "E", "in", "E", "end", "_">>
          [] h = "for" ->
                node.type =
                    <<"_", "for", "E", "in", "E", "do", "E", "end", "_">>
          [] h = "forWhen" ->
                node.type = <<"_", "for", "E", "in", "E", "when", "E", "do",
                              "E", "end", "_">>
          [] OTHER -> FALSE

\* Interpreter.prototype.eval: the handlers are tried last pushed first.
RECURSIVE HandlerFrom(_, _)
HandlerFrom(node, k) ==
    IF k = 0 THEN "none"
    ELSE IF Matches(handlers[k], node) THEN handlers[k]
    ELSE HandlerFrom(node, k - 1)

Handler(node) ==
    IF node = NULL \/ node = UNDEF THEN "none"
    ELSE HandlerFrom(node, Len(handlers))

\* getList
getList(node) ==
    IF IsNode(node) /\ ListSig(node.type) THEN node.args ELSE <<node>>

\* unparenthesize
unparenthesize(node) ==
    IF IsNode(node) /\ node.type = <<"_", "(", "E", ")", "_">>
    THEN node.args[1] ELSE node

\* normalizeCall; kind "none" is its null, and kind "TypeError" the getList
\* of the missing argument list of f().
normalizeCall(node) ==
    IF IsNode(node) /\ Len(node.type) = 3
        THEN [kind |-> "call", fn |-> node.ops[1], args |-> node.args]
    ELSE IF IsNode(node) /\ node.type = <<"E", "(", "E", ")", "_">>
        THEN [kind |-> "call", fn |-> node.args[1],
              args |-> getList(node.args[2])]
    ELSE IF IsNode(node) /\ node.type = <<"E", "(", "_", ")", "_">>
        THEN [kind |-> "TypeError", fn |-> NULL, args |-> <<>>]
    ELSE [kind |-> "none", fn |-> NULL, args |-> <<>>]

\* normalizeAssignment: [target, parameters or null, expression], or the
\* error thrown.
normalizeAssignment(node) ==
    IF ~(IsNode(node) /\ node.type = <<"E", "=", "E">>)
        THEN [err |-> "Error", target |-> NULL, isFn |-> FALSE,
              params |-> <<>>, body |-> NULL]
    ELSE LET fargs == normalizeCall(node.args[1])
         IN  IF fargs.kind = "TypeError"
                THEN [err |-> "TypeError", target |-> NULL, isFn |-> FALSE,
                      params |-> <<>>, body |-> NULL]
             ELSE IF fargs.kind = "call"
                THEN [err |-> "", target |-> fargs.fn, isFn |-> TRUE,
                      params |-> fargs.args, body |-> node.args[2]]
             ELSE [err |-> "", target |-> node.args[1], isFn |-> FALSE,
                   params |-> <<>>, body |-> node.args[2]]

\* The error of the first declaration that normalizeAssignment rejects.
RECURSIVE FirstDeclError(_)
FirstDeclError(decls) ==
    IF decls = <<>> THEN ""
    ELSE IF Head(decls).err # "" THEN Head(decls).err
    ELSE FirstDeclError(Tail(decls))

\* parseFloat, on the numerals that programs are written with.
parseFloat(text) ==
    CASE text = "0" -> 0 [] text = "1" -> 1 [] text = "2" -> 2
      [] text = "3" -> 3 [] text = "4" -> 4 [] text = "5" -> 5
      [] text = "6" -> 6 [] text = "7" -> 7 [] text = "8" -> 8
      [] text = "9" -> 9 [] text = "10" -> 10 [] text = "20" -> 20

\* text.slice(1, -1), on the string lexemes that programs are written with.
Unquote(text) ==
    CASE text = "\"\"" -> "" [] text = "\"a\"" -> "a"

\* The items of a string under for-of, on the strings of Unquote.
Chars(str) == CASE str = "" -> <<>> [] str = "a" -> <<Str("a")>>

\* variableBinder: the key it writes, or its SyntaxError.
BinderKey(expr) ==
    IF IsToken(expr) /\ expr.type \in {"word", "infix", "prefix"}
    THEN Ok(IF expr.type = "prefix" THEN <<"prefix", expr.text>>
            ELSE <<expr.text>>)
    ELSE Fail("SyntaxError")

NoProps == [k \in {} |-> Undef]

\* env[key] = value
Bind(es, e, key, value) ==
    [es EXCEPT ![e].props = (key :> value) @@ @]

\* Object.create(env), for an environment object env
ObjectCreate(es, parent) == Append(es, Env(parent, NoProps))

\* getField; a field of the host object Math is the host's.
getField(obj, field) ==
    CASE obj.t \in {"null", "undef"} -> Fail("TypeError")
      [] obj.t = "list" /\ field.t = "num" ->
            Ok(IF field.n \in 0..(Len(obj.items) - 1)
               THEN obj.items[field.n + 1] ELSE Undef)
      [] obj.t = "list" /\ field.t = "str" /\ field.s = "length" ->
            Ok(Num(Len(obj.items)))
      [] obj.t = "host" /\ field.t = "str" -> Ok(Host(field.s))
      [] obj.t \in {"num", "bool", "nan", "inf"} -> Ok(Undef)
      [] obj.t = "list" /\ field.t \in {"bool", "null", "undef", "nan"} ->
            Ok(Undef)

\* fn.lazy
IsLazyNever(fn) == FALSE

IsLazy(fn) == fn.t = "builtin" /\ fn.name \in LazyBuiltins

\* The environment in which let evaluates the expression of a value
\* binding.  A plausible slip: the new environment.
LetValueEnvNew(env, newEnv) == newEnv

LetValueEnv(env, newEnv) == env

(***************************************************************************)
(* INTERPRETER and HANDLERS                                                *)
(*                                                                         *)
(* A call of Interpreter.prototype.eval is the mode "eval" on a node and   *)
(* an environment; what the callers still have to do with its result is    *)
(* the stack of frames.  A thrown error unwinds every caller: no handler   *)
(* catches.                                                                *)
(***************************************************************************)

Evaluate(node, env, st) ==
    [mode |-> "eval", node |-> node, env |-> env, val |-> Undef,
     err |-> "", stack |-> st]

Return(v, st) ==
    [mode |-> "ret", node |-> NULL, env |-> NoEnv, val |-> v,
     err |-> "", stack |-> st]

Throw(err) ==
    [mode |-> "throw", node |-> NULL, env |-> NoEnv, val |-> Undef,
     err |-> err, stack |-> <<>>]

Out(ip, es) == [interp |-> ip, envs |-> es]

Outcome(r, st, es) ==
    IF r.ok THEN Out(Return(r.val, st), es) ELSE Out(Throw(r.err), es)

Top(st) == st[Len(st)]
Pop(st) == SubSeq(st, 1, Len(st) - 1)

\* arguments.shift() leaves the rest, of an empty list too.
Rest(s) == IF s = <<>> THEN <<>> ELSE Tail(s)

\* The loop of the function of buildFunction: each declaration is bound to
\* the next argument; ok is FALSE when variableBinder throws.
RECURSIVE BindAll(_, _, _, _)
BindAll(es, e, decls, vals) ==
    IF decls = <<>> THEN [ok |-> TRUE, es |-> es]
    ELSE LET key == BinderKey(Head(decls))
         IN  IF ~key.ok THEN [ok |-> FALSE, es |-> es]
             ELSE BindAll(Bind(es, e, key.val, Arg(vals, 1)), e,
                          Tail(decls), Rest(vals))

\* fn.apply(interpreter, vals) for evaluated arguments: a function of the
\* root environment, the function of buildFunction, or not a function.
Apply(fn, vals, st, es) ==
    CASE fn.t = "builtin" /\ fn.name \notin LazyBuiltins ->
            Outcome(ApplyBuiltin(fn.name, vals), st, es)
      [] /\ fn.t = "builtin" /\ fn.name \in LazyBuiltins
         /\ Arg(vals, 1).t \notin {"fn", "builtin", "host"} ->
            Out(Throw("TypeError"), es)
      [] fn.t = "fn" /\ fn.env = NoEnv -> Out(Throw("TypeError"), es)
      [] fn.t = "fn" /\ fn.env # NoEnv ->
            LET es1 == ObjectCreate(es, fn.env)
                newEnv == Len(es1)
                b == BindAll(es1, newEnv, fn.decls, vals)
            IN  IF b.ok THEN Out(Evaluate(fn.body, newEnv, st), b.es)
                ELSE Out(Throw("SyntaxError"), b.es)
      [] fn.t \in {"num", "bool", "str", "list", "null", "undef", "nan",
                   "inf"} ->
            Out(Throw("TypeError"), es)

\* runCall, up to the evaluation of the callee.
runCall(node, env, st, es) ==
    LET res == normalizeCall(node)
    IN  Out(Evaluate(res.fn, env,
                     Append(st, [k |-> "runCall", args |-> res.args,
                                 env |-> env])), es)

\* runCall, from the value of the callee on: a lazy callee is applied to
\* the thunks and calls the first, another has its arguments evaluated.
runCallee(fn, f, st, es) ==
    IF fn.t \in {"null", "undef"} THEN Out(Throw("TypeError"), es)
    ELSE IF IsLazy(fn) THEN
        IF f.args = <<>> THEN Out(Throw("TypeError"), es)
        ELSE Out(Evaluate(f.args[1], f.env,
                          Append(st, [k |-> "lazy", name |-> fn.name,
                                      rest |-> Tail(f.args),
                                      env |-> f.env])), es)
    ELSE IF f.args = <<>> THEN Apply(fn, <<>>, st, es)
    ELSE Out(Evaluate(f.args[1], f.env,
                      Append(st, [k |-> "args", fn |-> fn,
                                  rest |-> Tail(f.args), vals |-> <<>>,
                                  env |-> f.env])), es)

\* args.map(t => t()), from the value of one argument on.
runArgs(v, f, st, es) ==
    LET vals == Append(f.vals, v)
    IN  IF f.rest = <<>> THEN Apply(f.fn, vals, st, es)
        ELSE Out(Evaluate(f.rest[1], f.env,
                          Append(st, [f EXCEPT !.rest = Tail(f.rest),
                                               !.vals = vals])), es)

\* a() && b() and a() || b(), from the value of a() on.
runLazy(v, f, st, es) ==
    IF (f.name = "or" /\ Truthy(v)) \/ (f.name = "and" /\ ~Truthy(v))
        THEN Out(Return(v, st), es)
    ELSE IF f.rest = <<>> THEN Out(Throw("TypeError"), es)
    ELSE Out(Evaluate(f.rest[1], f.env, st), es)

\* The loop of the list handler.
listItems(v, f, st, es) ==
    LET vals == Append(f.vals, v)
    IN  IF f.rest = <<>> THEN Out(Return(List(vals), st), es)
        ELSE Out(Evaluate(f.rest[1], f.env,
                          Append(st, [f EXCEPT !.rest = Tail(f.rest),
                                               !.vals = vals])), es)

\* The reduce of the indexing handler, from an accumulator on.
indexFrom(res, rest, env, st, es) ==
    IF rest = <<>> THEN Out(Return(res, st), es)
    ELSE Out(Evaluate(rest[1], env,
                      Append(st, [k |-> "indexIdx", res |-> res,
                                  rest |-> Tail(rest), env |-> env])), es)

\* The loop of the if handler.
ifFrom(exprs, env, st, es) ==
    IF exprs = <<>> THEN Out(Return(Undef, st), es)
    ELSE IF Len(exprs) = 1 THEN Out(Evaluate(exprs[1], env, st), es)
    ELSE Out(Evaluate(exprs[1], env,
                      Append(st, [k |-> "if", rest |-> Tail(exprs),
                                  env |-> env])), es)

\* The loop of the sequences handler.
sequenceFrom(last, stmts, env, st, es) ==
    IF stmts = <<>> THEN Out(Return(last, st), es)
    ELSE Out(Evaluate(stmts[1], env,
                      Append(st, [k |-> "seq", rest |-> Tail(stmts),
                                  env |-> env])), es)

\* The loop of the let handler, from a declaration on: a function is built
\* and bound at once, a value is evaluated first.
RECURSIVE letFrom(_, _, _, _, _, _)
letFrom(decls, newEnv, env, body, st, es) ==
    IF decls = <<>> THEN Out(Evaluate(body, newEnv, st), es)
    ELSE LET d == Head(decls)
             key == BinderKey(d.target)
         IN  IF d.isFn THEN
                 IF ~key.ok THEN Out(Throw("SyntaxError"), es)
                 ELSE letFrom(Tail(decls), newEnv, env, body, st,
                              Bind(es, newEnv, key.val,
                                   Closure(d.params, d.body, newEnv, "let")))
             ELSE Out(Evaluate(d.body, LetValueEnv(env, newEnv),
                               Append(st, [k |-> "let", decl |-> d,
                                           rest |-> Tail(decls),
                                           newEnv |-> newEnv, env |-> env,
                                           body |-> body])), es)

\* The let handler, from the value of a value binding on.
letBind(v, f, st, es) ==
    LET key == BinderKey(f.decl.target)
    IN  IF ~key.ok THEN Out(Throw("SyntaxError"), es)
        ELSE letFrom(f.rest, f.newEnv, f.env, f.body, st,
                     Bind(es, f.newEnv, key.val, v))

\* The loop of forHandler, from an item on; f holds v, cond, body, env and
\* the results.
RECURSIVE forFrom(_, _, _, _)
forFrom(items, f, st, es) ==
    IF items = <<>> THEN Out(Return(List(f.results), st), es)
    ELSE IF f.env = NoEnv THEN Out(Throw("TypeError"), es)
    ELSE LET es1 == ObjectCreate(es, f.env)
             newEnv == Len(es1)
             key == BinderKey(f.v)
             g == [f EXCEPT !.items = Tail(items), !.newEnv = newEnv]
         IN  IF ~key.ok THEN Out(Throw("SyntaxError"), es1)
             ELSE IF f.cond # NULL
                THEN Out(Evaluate(f.cond, newEnv,
                                  Append(st, [g EXCEPT !.k = "forCond"])),
                         Bind(es1, newEnv, key.val, Head(items)))
             ELSE Out(Evaluate(f.body, newEnv,
                               Append(st, [g EXCEPT !.k = "forBody"])),
                      Bind(es1, newEnv, key.val, Head(items)))

\* forHandler, up to the evaluation of the list.
forHandler(v, list, cond, body, env, st, es) ==
    Out(Evaluate(list, env,
                 Append(st, [k |-> "forList", v |-> v, cond |-> cond,
                             body |-> body, env |-> env, items |-> <<>>,
                             results |-> <<>>, newEnv |-> NoEnv])), es)

\* h.func.apply(this, [node, env].concat(args)), for the handler h that
\* eval finds; the error of eval when it finds none.
Dispatch(node, env, st, es) ==
    LET h == Handler(node)
    IN  CASE h = "none" ->
                Out(Throw(IF node = NULL \/ node = UNDEF THEN "TypeError"
                          ELSE "SyntaxError"), es)
          [] h = "variable" -> Outcome(resolve(es, env, <<node.text>>), st, es)
          [] h = "prefixOperator" ->
                Outcome(resolve(es, env, <<"prefix", node.text>>), st, es)
          [] h = "number" -> Out(Return(Num(parseFloat(node.text)), st), es)
          [] h = "string" -> Out(Return(Str(Unquote(node.text)), st), es)
          [] h \in {"operator", "call"} -> runCall(node, env, st, es)
          [] h \in {"paren", "begin"} ->
                Out(Evaluate(node.args[1], env, st), es)
          [] h = "call0" ->
                Out(Evaluate(node.args[1], env,
                             Append(st, [k |-> "call0"])), es)
          [] h = "list" ->
                LET items == getList(node.args[1])
                IN  Out(Evaluate(items[1], env,
                                 Append(st, [k |-> "list",
                                             rest |-> Tail(items),
                                             vals |-> <<>>, env |-> env])),
                        es)
          [] h = "emptyList" -> Out(Return(List(<<>>), st), es)
          [] h = "index" ->
                Out(Evaluate(node.args[1], NoEnv,
                             Append(st, [k |-> "indexObj",
                                         rest |-> getList(node.args[2]),
                                         env |-> env])), es)
          [] h = "dot" ->
                Out(Evaluate(node.args[1], env,
                             Append(st, [k |-> "dotObj",
                                         field |-> node.args[2],
                                         env |-> env])), es)
          [] h = "if" -> ifFrom(node.args, env, st, es)
          [] h = "sequence" -> sequenceFrom(Undef, node.args, env, st, es)
          [] h = "lambda" ->
                Out(Return(Closure(getList(unparenthesize(node.args[1])),
                                   node.args[2], env, "lambda"), st), es)
          [] h = "let" ->
                LET raw == getList(node.args[1])
                    decls == [i \in 1..Len(raw) |->
                                normalizeAssignment(raw[i])]
                IN  IF FirstDeclError(decls) # ""
                        THEN Out(Throw(FirstDeclError(decls)), es)
                    ELSE IF env = NoEnv THEN Out(Throw("TypeError"), es)
                    ELSE letFrom(decls, Len(es) + 1, env, node.args[2], st,
                                 ObjectCreate(es, env))
          [] h = "for" ->
                forHandler(node.args[1], node.args[2], NULL, node.args[3],
                           env, st, es)
          [] h = "forWhen" ->
                forHandler(node.args[1], node.args[2], node.args[3],
                           node.args[4], env, st, es)

\* What the caller on top of the stack does with the value returned to it.
Resume(v, f, st, es) ==
    CASE f.k = "runCall" -> runCallee(v, f, st, es)
      [] f.k = "args" -> runArgs(v, f, st, es)
      [] f.k = "lazy" -> runLazy(v, f, st, es)
      [] f.k = "call0" -> Apply(v, <<>>, st, es)
      [] f.k = "list" -> listItems(v, f, st, es)
      [] f.k = "indexObj" -> indexFrom(v, f.rest, f.env, st, es)
      [] f.k = "indexIdx" ->
            LET r == getField(f.res, v)
            IN  IF r.ok THEN indexFrom(r.val, f.rest, f.env, st, es)
                ELSE Out(Throw(r.err), es)
      [] f.k = "dotObj" ->
            IF IsToken(f.field) /\ f.field.type = "word"
                THEN Outcome(getField(v, Str(f.field.text)), st, es)
            ELSE Out(Evaluate(f.field, f.env,
                              Append(st, [k |-> "dotField", obj |-> v])), es)
      [] f.k = "dotField" -> Outcome(getField(f.obj, v), st, es)
      [] f.k = "if" ->
            IF Truthy(v) THEN Out(Evaluate(f.rest[1], f.env, st), es)
            ELSE ifFrom(Tail(f.rest), f.env, st, es)
      [] f.k = "seq" -> sequenceFrom(v, f.rest, f.env, st, es)
      [] f.k = "let" -> letBind(v, f, st, es)
      [] f.k = "forList" ->
            (CASE v.t = "list" -> forFrom(v.items, f, st, es)
               [] v.t = "str" -> forFrom(Chars(v.s), f, st, es)
               [] v.t \in {"num", "bool", "null", "undef", "nan", "inf",
                           "fn", "builtin"} ->
                     Out(Throw("TypeError"), es))
      [] f.k = "forCond" ->
            IF Truthy(v)
                THEN Out(Evaluate(f.body, f.newEnv,
                                  Append(st, [f EXCEPT !.k = "forBody"])), es)
            ELSE forFrom(f.items, f, st, es)
      [] f.k = "forBody" ->
            forFrom(f.items, [f EXCEPT !.results = Append(@, v)], st, es)

\* One call of eval is entered: the handler runs up to its first call of
\* eval, its return or its throw.  The call is logged by the span of its
\* node, and the environment a lambda closes over is remembered.
EvalStep ==
    /\ interp.mode = "eval"
    /\ LET o == Dispatch(interp.node, interp.env, interp.stack, envs)
       IN  /\ interp' = o.interp
           /\ envs' = o.envs
    /\ evalLog' = IF interp.node = NULL \/ interp.node = UNDEF THEN evalLog
                  ELSE Append(evalLog, <<interp.node.start, interp.node.end>>)
    /\ captured' = IF Handler(interp.node) = "lambda" /\ interp.env # NoEnv
                   THEN captured \cup {interp.env} ELSE captured
    /\ UNCHANGED <<input, lexer, tagger, parser>>

\* A call of eval returns to the caller on top of the stack, which runs up
\* to its next call of eval, its return or its throw.
RetStep ==
    /\ interp.mode = "ret"
    /\ interp.stack # <<>>
    /\ LET o == Resume(interp.val, Top(interp.stack), Pop(interp.stack), envs)
       IN  /\ interp' = o.interp
           /\ envs' = o.envs
    /\ UNCHANGED <<input, lexer, tagger, parser, evalLog, captured>>

\* eval is entered on a node that the handler h takes.
Handling(h) == interp.mode = "eval" /\ Handler(interp.node) = h

\* eval returns to a caller that waits for it at k.
Returning(k) ==
    /\ interp.mode = "ret"
    /\ interp.stack # <<>>
    /\ Top(interp.stack).k = k

EvalUnknown == Handling("none") /\ EvalStep
EvalVariable == Handling("variable") /\ EvalStep
EvalPrefix == Handling("prefixOperator") /\ EvalStep
EvalNumber == Handling("number") /\ EvalStep
EvalString == Handling("string") /\ EvalStep
EvalOperator == Handling("operator") /\ EvalStep
EvalParen == Handling("paren") /\ EvalStep
EvalBegin == Handling("begin") /\ EvalStep
EvalCall == Handling("call") /\ EvalStep
EvalCall0 == Handling("call0") /\ EvalStep
EvalList == Handling("list") /\ EvalStep
EvalEmptyList == Handling("emptyList") /\ EvalStep
EvalIndex == Handling("index") /\ EvalStep
EvalDot == Handling("dot") /\ EvalStep
EvalIf == Handling("if") /\ EvalStep
EvalSequence == Handling("sequence") /\ EvalStep
EvalLambda == Handling("lambda") /\ EvalStep
EvalLet == Handling("let") /\ EvalStep
EvalFor == Handling("for") /\ EvalStep
EvalForWhen == Handling("forWhen") /\ EvalStep

RetRunCall == Returning("runCall") /\ RetStep
RetArg == Returning("args") /\ RetStep
RetLazyFirst == Returning("lazy") /\ RetStep
RetCall0 == Returning("call0") /\ RetStep
RetListItem == Returning("list") /\ RetStep
RetIndexObj == Returning("indexObj") /\ RetStep
RetIndexIdx == Returning("indexIdx") /\ RetStep
RetDotObj == Returning("dotObj") /\ RetStep
RetDotField == Returning("dotField") /\ RetStep
RetIfCond == Returning("if") /\ RetStep
RetSeq == Returning("seq") /\ RetStep
RetLetValue == Returning("let") /\ RetStep
RetForList == Returning("forList") /\ RetStep
RetForCond == Returning("forCond") /\ RetStep
RetForBody == Returning("forBody") /\ RetStep

\* Interpreter.prototype.process returns the value of the program.
Finish ==
    /\ interp.mode = "ret"
    /\ interp.stack = <<>>
    /\ interp' = [interp EXCEPT !.mode = "done"]
    /\ UNCHANGED <<input, lexer, tagger, parser, envs, evalLog, captured>>

(***************************************************************************)
(* Specifications                                                          *)
(***************************************************************************)

IdleInterp ==
    [mode |-> "idle", node |-> NULL, env |-> NoEnv, val |-> Undef,
     err |-> "", stack |-> <<>>]

\* The interpreter is not running.
IdleEval ==
    /\ interp = IdleInterp
    /\ envs = <<>>
    /\ evalLog = <<>>
    /\ captured = {}

InitLex ==
    /\ input \in SeqsUpTo(LexAlphabet, MaxTextLen)
    /\ lexer = LexerCalled(input)
    /\ tagger = IdleTagger
    /\ parser = IdleParser
    /\ IdleEval

NextLex == LexMatch \/ LexReturn

SpecLex == InitLex /\ [][NextLex]_vars

InitTag ==
    /\ lexer = IdleLexer
    /\ input \in {Place(s) : s \in SeqsUpTo(LexedKinds, MaxTagLen)}
    /\ tagger = TaggerCalled(input, 1, <<>>)
    /\ parser = IdleParser
    /\ IdleEval

NextTag == TagLeadingOpen \/ TagRetag \/ TagKeep \/ TagReturn \/ TagAgain

SpecTag == InitTag /\ [][NextTag]_vars

\* The longest token sequence drawn freely from ParseAlphabet.
MaxTokens == 3

\* Tokens of every priority class; "comment" is a kind without a priority.
ParseAlphabet ==
    { <<"word", "a">>, <<"infix", "+">>, <<"infix", "^">>, <<"infix", ",">>,
      <<"prefix", "-">>, <<"open", "(">>, <<"close", ")">>,
      <<"middle", "in">>, <<"comment", "#">> }

LeftAssocOps == {"or", "and", "+", "-", "*", "/", "%"}
RightAssocOps == {"=", "->", "^"}

\* The token sequence a o1 b o2 c.
OpChain(o1, o2) ==
    Place(<< <<"word", "a">>, <<"infix", o1>>, <<"word", "b">>,
             <<"infix", o2>>, <<"word", "c">> >>)

OpChains ==
    {OpChain(o1, o2) : o1, o2 \in LeftAssocOps \cup RightAssocOps}

InitParse ==
    /\ input \in {Place(s) : s \in SeqsUpTo(ParseAlphabet, MaxTokens)}
                    \cup OpChains
    /\ parser = ParserCalled(input)
    /\ lexer = IdleLexer
    /\ tagger = IdleTagger
    /\ IdleEval

NextParse ==
    ParseDone \/ ParseOpen \/ ParseClose \/ ParseExtend \/ ParseThrow

SpecParse == InitParse /\ [][NextParse]_vars

\* The loop of Parser.process is synchronous: it keeps iterating.
FairSpecParse == SpecParse /\ WF_vars(NextParse)

\* The numerals of parseFloat's table.
Numerals ==
    {"0", "1", "2", "3", "4", "5", "6", "7", "8", "9", "10", "20"}

\* The token type Teacup.tokenDefinitions gives a whole lexeme: the first
\* of number, open, middle, close, infix, word, string that matches it.
LexemeType(text) ==
    CASE text \in Numerals -> "number"
      [] text \in {"(", "[", "{", "let", "for", "if", "begin"} -> "open"
      [] text \in {"then", "elif", "else", "in", "do", "when"} -> "middle"
      [] text \in {")", "]", "}", "end"} -> "close"
      [] text \in SimpleOperatorLexemes \cup {",", ";", "\n"} -> "infix"
      [] text \in {"\"a\"", "\"\""} -> "string"
      [] OTHER -> "word"

\* The tokens of a program given by its lexemes.
Lexemes(texts) ==
    Place([i \in 1..Len(texts) |-> <<LexemeType(texts[i]), texts[i]>>])

\* The end-to-end scenarios of the language.
Scenario1 == Lexemes(<<"1", "+", "2", "*", "3">>)
Scenario2 == Lexemes(<<"2", "^", "3", "^", "2">>)
Scenario3 == Lexemes(<<"-", "3", "+", "4">>)
Scenario4 ==
    Lexemes(<<"let", "x", "=", "10", ",", "y", "=", "x", "+", "1", "in",
              "y", "*", "2", "end">>)
Scenario5 ==
    Lexemes(<<"let", "fact", "(", "n", ")", "=", "if", "n", "==", "0",
              "then", "1", "else", "n", "*", "fact", "(", "n", "-", "1", ")",
              "end", "in", "fact", "(", "5", ")", "end">>)
Scenario6 ==
    Lexemes(<<"for", "x", "in", "1", "..", "6", "when", "x", "%", "2", "==",
              "0", "do", "x", "*", "x", "end">>)
Scenario7 == Lexemes(<<"true", "or", "(", "1", "/", "0", ")">>)

\* a or b, a and b
LazyOperands == {"true", "false", "0", "1", "null", "zz"}
LazyProgram(a, o, b) == Lexemes(<<a, o, b>>)
LazyPrograms ==
    {LazyProgram(a, o, b) : a, b \in LazyOperands, o \in {"or", "and"}}

\* A lazy call whose second operand is bound at the call site only.
LazyEnvProgram ==
    Lexemes(<<"let", "q", "=", "1", "in", "false", "or", "q", "end">>)

\* a + b, and f(a, b) for a function of the program
StrictOperands == {"1", "2", "zz"}
SumProgram(a, b) == Lexemes(<<a, "+", b>>)
CallProgram(a, b) ==
    Lexemes(<<"let", "f", "(", "x", ",", "y", ")", "=", "y", "in",
              "f", "(", a, ",", b, ")", "end">>)
StrictPrograms ==
    {SumProgram(a, b) : a, b \in StrictOperands}
        \cup {CallProgram(a, b) : a, b \in StrictOperands}

\* Lambdas that close over an environment, and bindings made afterwards.
ShadowProgram ==
    Lexemes(<<"let", "y", "=", "1", "in",
              "let", "f", "=", "x", "->", "x", "+", "y", ",", "y", "=", "5",
              "in", "f", "(", "1", ")", "end", "end">>)
LateProgram ==
    Lexemes(<<"let", "f", "=", "x", "->", "y", ",", "y", "=", "5", "in",
              "f", "(", "1", ")", "end">>)
LoopProgram ==
    Lexemes(<<"let", "y", "=", "1", "in",
              "let", "f", "=", "x", "->", "x", "+", "y", "in",
              "for", "y", "in", "[", "3", ",", "4", "]", "do",
              "f", "(", "y", ")", "end", "end", "end">>)
ParamProgram ==
    Lexemes(<<"let", "y", "=", "1", "in",
              "let", "f", "=", "x", "->", "x", "+", "y", ",",
              "g", "(", "y", ")", "=", "f", "(", "y", ")", "in",
              "g", "(", "3", ")", "end", "end">>)
ClosurePrograms == {ShadowProgram, LateProgram, LoopProgram, ParamProgram}

\* A value binding that uses the name of the binding before it.
LetProgram(a) ==
    Lexemes(<<"let", "x", "=", a, ",", "y", "=", "x", "in", "y", "end">>)
LetPrograms == {LetProgram(a) : a \in {"1", "2"}}

\* A name bound by a let to a list, indexed.
IndexProgram ==
    Lexemes(<<"let", "xs", "=", "[", "1", ",", "2", "]", "in",
              "xs", "[", "1", "]", "end">>)

\* Programs for the other handlers.
HandlerPrograms ==
    { Lexemes(<<"begin", "1", "end">>),
      Lexemes(<<"let", "f", "(", "x", ")", "=", "1", "in", "f", "(", ")",
                "end">>),
      Lexemes(<<"[", "1", ",", "2", "]">>),
      Lexemes(<<"[", "]">>),
      Lexemes(<<"[", "1", ",", "2", "]", "[", "0", "]">>),
      IndexProgram,
      Lexemes(<<"[", "1", ",", "2", "]", ".", "length">>),
      Lexemes(<<"[", "1", ",", "2", "]", ".", "0">>),
      Lexemes(<<"if", "0", "then", "1", "elif", "1", "then", "2", "else",
                "3", "end">>),
      Lexemes(<<"if", "0", "then", "1", "end">>),
      Lexemes(<<"1", ";", "2">>),
      Lexemes(<<"for", "x", "in", "[", "1", ",", "2", "]", "do", "x", "+",
                "1", "end">>),
      Lexemes(<<"for", "x", "in", "\"a\"", "do", "x", "end">>),
      Lexemes(<<"\"a\"">>),
      Lexemes(<<"1", "+", "-", "2">>),
      Lexemes(<<"(", "1", "+", "2", ")", "*", "3">>),
      Lexemes(<<"let", "in", "1", "end">>),
      Lexemes(<<"let", "x", "=", "1", "in", "x", ")">>) }

Programs ==
    {Scenario1, Scenario2, Scenario3, Scenario4, Scenario5, Scenario6,
     Scenario7}
        \cup LazyPrograms \cup StrictPrograms \cup ClosurePrograms
        \cup LetPrograms \cup HandlerPrograms \cup {LazyEnvProgram}

\* teacup(source), from the tokens of the lexer on: the tagger, the parser,
\* and the interpreter about to evaluate the tree in makeEnvironment(rootEnv).
InitEval ==
    /\ input \in Programs
    /\ lexer = IdleLexer
    /\ tagger = IdleTagger
    /\ parser = IdleParser
    /\ LET p == Parse(tagPrefixOperators(input))
       IN  interp = IF p.pc = "done" THEN Evaluate(p.ret, 1, <<>>)
                    ELSE Throw("SyntaxError")
    /\ envs = <<Env(NoEnv, rootEnv)>>
    /\ evalLog = <<>>
    /\ captured = {}

NextEval ==
    \/ EvalUnknown \/ EvalVariable \/ EvalPrefix \/ EvalNumber \/ EvalString
    \/ EvalOperator \/ EvalParen \/ EvalBegin \/ EvalCall \/ EvalCall0
    \/ EvalList \/ EvalEmptyList \/ EvalIndex \/ EvalDot \/ EvalIf
    \/ EvalSequence \/ EvalLambda \/ EvalLet \/ EvalFor \/ EvalForWhen
    \/ RetRunCall \/ RetArg \/ RetLazyFirst \/ RetCall0 \/ RetListItem
    \/ RetIndexObj \/ RetIndexIdx \/ RetDotObj \/ RetDotField \/ RetIfCond
    \/ RetSeq \/ RetLetValue \/ RetForList \/ RetForCond \/ RetForBody
    \/ Finish

SpecEval == InitEval /\ [][NextEval]_vars

(***************************************************************************)
(* Properties of the lexer                                                 *)
(***************************************************************************)

\* The pieces of type null that are not empty: the characters split found
\* between the matches, at which no token definition matches.
Unconsumed == SelectSeq(lexer.pieces,
                        LAMBDA t : t.type = "null" /\ t.text # <<>>)

\* C5 as stated: the lexer does not return when the text holds a character
\* no token definition can consume.
C5_RaisesOnUnconsumed ==
    lexer.pc = "returned" => Unconsumed = <<>>

\* C5 amended: the lexer returns for every text; a character at which no
\* token definition matches is in no returned token, and every returned
\* token is a match of its definition at its source offsets.
C5_DropsUnconsumed ==
    lexer.pc = "returned" =>
        /\ \A k \in 1..Len(lexer.pieces) :
            LET t == lexer.pieces[k]
            IN  /\ t.start = IF k = 1 THEN 0 ELSE lexer.pieces[k - 1].end
                /\ t.text = SubSeq(input, t.start + 1, t.end)
                /\ t.type = "null" =>
                    /\ \A q \in (t.start + 1)..t.end :
                        MatchAt(input, q).len = 0
                    /\ \A j \in 1..Len(lexer.ret) :
                        lexer.ret[j].end <= t.start
                            \/ lexer.ret[j].start >= t.end
        /\ lexer.pieces # <<>>
        /\ lexer.pieces[Len(lexer.pieces)].end = Len(input)
        /\ \A j \in 1..Len(lexer.ret) :
            LET t == lexer.ret[j]
            IN  /\ t.text = SubSeq(input, t.start + 1, t.end)
                /\ MatchAt(input, t.start + 1) =
                        [type |-> t.type, len |-> Len(t.text)]
                /\ t.type # "comment"
                /\ j > 1 => lexer.ret[j - 1].end <= t.start

\* The lexer has returned the tokens on both sides of a dropped character.
C5_Witness ==
    /\ lexer.pc = "returned"
    /\ Len(lexer.ret) = 2
    /\ \E k \in 1..Len(Unconsumed) :
        /\ lexer.ret[1].end <= Unconsumed[k].start
        /\ Unconsumed[k].end <= lexer.ret[2].start
        /\ Unconsumed[k].text = <<"'">>

(***************************************************************************)
(* Properties of the tagger                                                *)
(***************************************************************************)

TagPassDone(n) == tagger.pc = "done" /\ tagger.pass = n

\* C1: the tagger turns an infix token into a prefix token when it is the
\* first token, follows an open token or follows a token lexed as infix,
\* and leaves every other token's kind alone.
C1_TagsLeadingInfix ==
    TagPassDone(1) =>
        \A i \in 1..Len(input) :
            tagger.tokens[i].type =
                IF /\ input[i].type = "infix"
                   /\ \/ i = 1
                      \/ input[i - 1].type \in {"open", "infix"}
                THEN "prefix"
                ELSE input[i].type

\* C6: tagging an already tagged stream changes no token: the second pass
\* returns the stream the first pass returned.
C6_TaggerIdempotent ==
    TagPassDone(2) => tagger.tokens = tagger.first

\* The second pass has run over a stream in which the first pass re-tagged
\* a token and left an infix token as it was.
C6_Witness ==
    /\ TagPassDone(2)
    /\ \E i, j \in 1..Len(input) :
        /\ input[i].type = "infix" /\ tagger.first[i].type = "prefix"
        /\ tagger.first[j].type = "infix"

(***************************************************************************)
(* Properties of the parser                                                *)
(***************************************************************************)

\* The node finalize builds for x op y.
Bin(x, op, y) ==
    [type |-> <<"E", op.text, "E">>, args |-> <<x, y>>, ops |-> <<op>>,
     start |-> x.start, end |-> y.end]

\* C3: a op b op c parses to (a op b) op c for a left-associative operator
\* and to a op (b op c) for a right-associative one.
C3_Associativity ==
    parser.pc = "done" =>
        /\ \A o \in LeftAssocOps :
            input = OpChain(o, o) =>
                parser.ret = Bin(Bin(input[1], input[2], input[3]),
                                 input[4], input[5])
        /\ \A o \in RightAssocOps :
            input = OpChain(o, o) =>
                parser.ret = Bin(input[1], input[2],
                                 Bin(input[3], input[4], input[5]))

\* a - b - c has been parsed, and its first operand is a node.
C3_Witness ==
    /\ parser.pc = "done"
    /\ input = OpChain("-", "-")
    /\ IsNode(parser.ret) /\ IsNode(parser.ret.args[1])

BothPresent ==
    /\ parser.pc = "loop"
    /\ parser.left # UNDEF /\ parser.right # UNDEF
    /\ HasPrio(parser.left) /\ HasPrio(parser.right)

AbsentCases ==
    parser.pc = "loop" =>
        /\ (parser.left = UNDEF /\ parser.right # UNDEF
                => order(parser.left, parser.right) = "1")
        /\ (parser.left # UNDEF /\ parser.right = UNDEF
                => order(parser.left, parser.right) = "-1")
        /\ (parser.left = UNDEF /\ parser.right = UNDEF
                => order(parser.left, parser.right) = "done")

\* C8 as stated: order compares left's right priority with right's left
\* priority.
C8_OrderAsStated ==
    /\ AbsentCases
    /\ BothPresent =>
        LET l == getPrio(parser.left).right
            r == getPrio(parser.right).left
            o == order(parser.left, parser.right)
        IN  /\ o = "1" <=> l < r
            /\ o = "0" <=> l = r
            /\ o = "-1" <=> l > r

\* C8 amended: order compares the left field of left's priority with the
\* right field of right's priority.
C8_OrderAmended ==
    /\ AbsentCases
    /\ BothPresent =>
        LET l == getPrio(parser.left).left
            r == getPrio(parser.right).right
            o == order(parser.left, parser.right)
        IN  /\ o = "1" <=> l < r
            /\ o = "0" <=> l = r
            /\ o = "-1" <=> l > r

\* Two + operators are being compared: the case in which the two readings
\* of the priority pair differ.
C8_Witness ==
    /\ BothPresent
    /\ parser.left.text = "+" /\ parser.right.text = "+"
    /\ order(parser.left, parser.right) = "-1"

AllHavePrio == \A i \in 1..Len(input) : HasPrio(input[i])

\* The input not yet compared: right, and the tokens behind it.
Unread(p) == (IF p.right = UNDEF THEN <<>> ELSE <<p.right>>) \o p.tokens

ParserLoopInv ==
    AllHavePrio =>
        /\ parser.pc # "throw"
        /\ parser.left = UNDEF <=> parser.stack = <<>>
        /\ parser.pc = "done" =>
            /\ Unread(parser) = <<>>
            /\ parser.stack = <<>> /\ parser.current = <<NULL, UNDEF>>
            /\ parser.ret = NULL <=> input = <<>>

IterationProgress ==
    AllHavePrio /\ parser.pc = "loop" /\ parser'.pc = "loop" =>
        \/ /\ Len(Unread(parser')) = Len(Unread(parser)) - 1
           /\ Len(parser'.stack) >= Len(parser.stack)
        \/ /\ Len(parser'.stack) = Len(parser.stack) - 1
           /\ Unread(parser') = Unread(parser)

\* C9: when every token has a priority the loop reaches done, never throws,
\* each iteration consumes one token or pops one handle, left is absent
\* exactly when the stack is empty, done finds the input exhausted and no
\* handle open, and the result is null exactly for the empty sequence.
C9_LoopTerminates ==
    /\ []ParserLoopInv
    /\ [][IterationProgress]_vars
    /\ (AllHavePrio ~> parser.pc = "done")

\* An unbalanced sequence, closed by a close token nothing opened, has been
\* parsed to the end.
C9_Witness ==
    /\ parser.pc = "done" /\ AllHavePrio
    /\ Len(input) >= 3
    /\ \E i \in 1..Len(input) : input[i].type = "close"
    /\ \A i \in 1..Len(input) : input[i].type # "open"
    /\ parser.closed # <<>>

\* The tokens of a tree, left to right: the signature says which operand
\* slots are filled.
RECURSIVE Flatten(_)
RECURSIVE FlattenNode(_, _, _)
Flatten(x) ==
    IF IsToken(x) THEN <<x>>
    ELSE IF IsNode(x) THEN FlattenNode(x, 1, 0)
    ELSE <<>>
FlattenNode(n, i, k) ==
    IF i > Len(n.type) THEN <<>>
    ELSE IF i % 2 = 0 THEN <<n.ops[i \div 2]>> \o FlattenNode(n, i + 1, k)
    ELSE IF n.type[i] = "E"
        THEN Flatten(n.args[k + 1]) \o FlattenNode(n, i + 1, k + 1)
    ELSE FlattenNode(n, i + 1, k)

RECURSIVE FlattenAll(_)
FlattenAll(items) ==
    IF items = <<>> THEN <<>>
    ELSE Flatten(Head(items)) \o FlattenAll(Tail(items))

RECURSIVE FlattenStack(_)
FlattenStack(st) ==
    IF st = <<>> THEN <<>>
    ELSE FlattenAll(Head(st)) \o FlattenStack(Tail(st))

HandleShape(h) ==
    /\ Len(h) >= 3 /\ Len(h) % 2 = 1
    /\ \A i \in 1..Len(h) :
        IF i % 2 = 1 THEN h[i] = NULL \/ IsToken(h[i]) \/ IsNode(h[i])
        ELSE IsToken(h[i])

\* C10: stack, current, middle and the unread input hold every input token
\* once, in source order; a handle given to the finalizer has odd length of
\* at least 3 with operators at JavaScript's odd indexes; the returned tree
\* flattens to the input.
C10_TokensConserved ==
    /\ parser.pc \in {"loop", "done"} =>
        FlattenStack(parser.stack) \o FlattenAll(parser.current)
            \o Flatten(parser.middle) \o Unread(parser) = input
    /\ parser.closed # <<>> => HandleShape(parser.closed)
    /\ parser.pc = "done" => Flatten(parser.ret) = input

\* A handle was extended around a filled operand and the parse has ended.
C10_Witness ==
    /\ parser.pc = "done" /\ Len(input) >= 3
    /\ IsNode(parser.ret) /\ Len(parser.ret.type) >= 5
    /\ Len(parser.ret.args) >= 1

(***************************************************************************)
(* Properties of the interpreter                                           *)
(***************************************************************************)

\* The evaluation has returned or thrown.
Terminal == interp.mode \in {"done", "throw"}

\* How many times eval was called on the node of a span.
Count(span) == Cardinality({i \in DOMAIN evalLog : evalLog[i] = span})

\* The calls of eval on the nodes of some spans, in order.
Logged(spans) == SelectSeq(evalLog, LAMBDA e : e \in spans)

\* C2: the value bindings of a let are sequential: the expression of a
\* binding can use the names of the bindings before it, so that
\* `let x = 10, y = x + 1 in y * 2 end` yields 22 and `let x = a, y = x in y
\* end` the value of a, with no undefined-variable error.
C2_SequentialLet ==
    /\ (input = Scenario4 /\ Terminal) =>
            (interp.mode = "done" /\ interp.val = Num(22))
    /\ \A a \in {"1", "2"} :
        (input = LetProgram(a) /\ Terminal) =>
            (interp.mode = "done" /\ interp.val = Num(parseFloat(a)))

\* The first operand of a program `a or b` or `a and b`, evaluated on its
\* own in the root environment.
FirstOperand == Dispatch(input[1], 1, <<>>, <<Env(NoEnv, rootEnv)>>).interp

\* The first operand has a value, and it is the one that makes `or` or
\* `and` go on to the second.
NeedsSecond ==
    /\ FirstOperand.mode = "ret"
    /\ IF input[2].text = "or" THEN ~Truthy(FirstOperand.val)
       ELSE Truthy(FirstOperand.val)

\* C4: when runCall finds a callee with the lazy flag, no argument has been
\* evaluated; in `a or b` and `a and b`, a is evaluated exactly once and b
\* only if a was falsy (or), truthy (and), after a, and then once, in the
\* environment of the call, where `let q = 1 in false or q end` finds q; `true or
\* (1 / 0)` is true without evaluating the division; for a callee without
\* the flag (a function of the root environment, a function of the program)
\* the arguments are evaluated once each, left to right, before the callee
\* runs.
C4_LazyAndStrict ==
    /\ (/\ input \in LazyPrograms \cup {Scenario7}
        /\ Returning("runCall")
        /\ interp.val.t = "builtin"
        /\ interp.val.name \in LazyBuiltins) =>
            \A i \in 1..Len(Top(interp.stack).args) :
                LET x == Top(interp.stack).args[i]
                IN  Count(<<x.start, x.end>>) = 0
    /\ input \in LazyPrograms =>
        /\ Count(<<0, 1>>) <= 1
        /\ Count(<<2, 3>>) <= 1
        /\ Count(<<2, 3>>) = 1 =>
                (NeedsSecond /\ Logged({<<0, 1>>, <<2, 3>>}) = <<<<0, 1>>, <<2, 3>>>>)
        /\ Terminal =>
                (Count(<<0, 1>>) = 1 /\ (NeedsSecond => Count(<<2, 3>>) = 1))
    /\ (input = LazyEnvProgram /\ Terminal) =>
            (interp.mode = "done" /\ interp.val = Num(1))
    /\ input = Scenario7 =>
        /\ Count(<<2, 7>>) = 0
        /\ Terminal => (interp.mode = "done" /\ interp.val = Bool(TRUE))
    /\ (\E a, b \in StrictOperands : input = SumProgram(a, b)) =>
        /\ Logged({<<0, 1>>, <<2, 3>>})
                \in {<<>>, <<<<0, 1>>>>, <<<<0, 1>>, <<2, 3>>>>}
        /\ interp.mode = "done" =>
                Logged({<<0, 1>>, <<2, 3>>}) = <<<<0, 1>>, <<2, 3>>>>
    /\ (\E a, b \in StrictOperands : input = CallProgram(a, b)) =>
        /\ Logged({<<12, 13>>, <<14, 15>>, <<8, 9>>})
                \in {<<>>, <<<<12, 13>>>>, <<<<12, 13>>, <<14, 15>>>>,
                     <<<<12, 13>>, <<14, 15>>, <<8, 9>>>>}
        /\ interp.mode = "done" =>
                Logged({<<12, 13>>, <<14, 15>>, <<8, 9>>})
                    = <<<<12, 13>>, <<14, 15>>, <<8, 9>>>>

\* `true or zz` has returned true, and zz, which is undefined, was never
\* evaluated.
C4_Witness ==
    /\ input = LazyProgram("true", "or", "zz")
    /\ interp.mode = "done"
    /\ interp.val = Bool(TRUE)
    /\ Count(<<0, 1>>) = 1
    /\ Count(<<2, 3>>) = 0

\* C7: a step changes an existing environment only by the binding of a let,
\* in the environment that let created, which is no parent or ancestor of
\* the environment of the let; parameters and for variables are bound in
\* environments created by the step; and the environment a lambda closed
\* over, with its ancestors, is never changed afterwards, so that f of
\* `let y = 1 in let f = x -> x + y, y = 5 in f(1) end end` still adds 1.
C7_BindingsInnermost ==
    /\ [][/\ Len(envs') >= Len(envs)
          /\ \A e \in 1..Len(envs) :
                envs'[e] # envs[e] =>
                    /\ Returning("let")
                    /\ e = Top(interp.stack).newEnv
                    /\ e \notin Chain(envs, Top(interp.stack).env)
                    /\ envs'[e].parent = envs[e].parent
          /\ \A c \in captured :
                \A a \in Chain(envs, c) : envs'[a] = envs[a]]_vars
    /\ []((input = ShadowProgram /\ Terminal) =>
            (interp.mode = "done" /\ interp.val = Num(2)))

\* A lambda has closed over an environment with y = 1, y was bound to 5 in
\* a newer environment afterwards, and the call of the lambda returned 2.
C7_Witness ==
    /\ input = ShadowProgram
    /\ captured # {}
    /\ \E e \in 1..Len(envs) :
        /\ <<"y">> \in DOMAIN envs[e].props
        /\ envs[e].props[<<"y">>] = Num(5)
        /\ \A c \in captured : e \notin Chain(envs, c)
    /\ interp.mode = "done"
    /\ interp.val = Num(2)

\* C11: every call of eval is given an environment, never a missing one; in
\* particular the indexed expression of `E [ E ] _` is evaluated in the
\* current environment, so that `let xs = [1, 2] in xs[1] end` resolves xs
\* and yields 2 instead of failing.
C11_EvalGivenEnv ==
    /\ interp.mode = "eval" => interp.env # NoEnv
    /\ (input = IndexProgram /\ Terminal) =>
            (interp.mode = "done" /\ interp.val = Num(2))

====
